---- MODULE Spec2Model ----
(***************************************************************************)
(* Model of search-dash.py: the substitution processors (dashsub.py,       *)
(* search.py), the search pipeline and the driver loop of main             *)
(* (searchdash.py).                                                        *)
(*                                                                         *)
(* Strings are sequences of one-character strings.  The specifications:    *)
(*   SpecProc    a DashSub and a Search object under arbitrary calls       *)
(*   Spec        main(): argument handling, module loading, the driver     *)
(*               loop and run_search_pipeline over the default engines     *)
(*   FairSpec    Spec, with main scheduled until it ends                   *)
(*   SpecLoop    main and the driver loop with a processor of either       *)
(*               class, under interrupts and a failing stdout              *)
(*   SpecEngine  the search method of each engine over what the network    *)
(*               can answer                                                *)
(***************************************************************************)
EXTENDS Integers, Sequences, FiniteSets, TLC

\* ------------------------------------------------------------------ bounds
MaxLen == 2
MaxCalls == 28
MaxResults == 3
MaxCap == 3
MaxDivs == 2

\* --------------------------------------------------------------- constants
\* dashsub.py:29  ALPHABET = string.ascii_lowercase
ALPHABET ==
  << "a","b","c","d","e","f","g","h","i","j","k","l","m",
     "n","o","p","q","r","s","t","u","v","w","x","y","z" >>

\* the characters query strings are built from: the placeholder and a letter
Chars == {"-", "x"}

RECURSIVE StringsOfLen(_)
StringsOfLen(n) ==
  IF n = 0 THEN { <<>> }
  ELSE { Append(s, c) : s \in StringsOfLen(n - 1), c \in Chars }

Strings == UNION { StringsOfLen(n) : n \in 0..MaxLen }

\* ------------------------------------------------------------ str helpers
\* Replace with str.replace(old, new, 1): only the first occurrence
RECURSIVE ReplaceFirstOnly(_, _, _)
ReplaceFirstOnly(text, old, new) ==
  IF text = <<>> THEN <<>>
  ELSE IF Head(text) = old THEN << new >> \o Tail(text)
  ELSE << Head(text) >> \o ReplaceFirstOnly(Tail(text), old, new)

\* str.replace(old, new) for a one-character old: every occurrence, left to
\* right; the length is kept and the other characters are copied.
RECURSIVE Replace(_, _, _)
Replace(text, old, new) ==
  IF text = <<>> THEN <<>>
  ELSE << IF Head(text) = old THEN new ELSE Head(text) >>
         \o Replace(Tail(text), old, new)

\* the `in` operator for a one-character needle:  c in text
Contains(text, c) == \E k \in 1..Len(text) : text[k] = c

\* ---------------------------------------------------------------- DashSub
\* DashSub.__init__
DashSub_init == [cls |-> "DashSub", index |-> 0, done |-> FALSE]

\* DashSub.process that hands the text back when done instead of raising
DashSub_process_noraise(self, text) ==
  IF self.done
  THEN [raised |-> FALSE, ret |-> text, self |-> self]
  ELSE [raised |-> FALSE,
        ret |-> Replace(text, "-", ALPHABET[self.index + 1]),
        self |-> [index |-> self.index + 1, cls |-> self.cls,
                  done |-> (self.index = Len(ALPHABET) - 1)]]

\* DashSub.process that marks itself finished one letter early
DashSub_process_early(self, text) ==
  IF self.done
  THEN [raised |-> TRUE, ret |-> <<>>, self |-> self]
  ELSE [raised |-> FALSE,
        ret |-> Replace(text, "-", ALPHABET[self.index + 1]),
        self |-> [index |-> self.index + 1, cls |-> self.cls,
                  done |-> (self.index = Len(ALPHABET) - 2)]]

\* DashSub.process that uses up a letter only when the text has a '-'
DashSub_process_lazy(self, text) ==
  IF self.done
  THEN [raised |-> TRUE, ret |-> <<>>, self |-> self]
  ELSE IF ~Contains(text, "-")
  THEN [raised |-> FALSE, ret |-> text, self |-> self]
  ELSE [raised |-> FALSE,
        ret |-> Replace(text, "-", ALPHABET[self.index + 1]),
        self |-> [index |-> self.index + 1, cls |-> self.cls,
                  done |-> (self.index = Len(ALPHABET) - 1)]]

\* DashSub.process: the call's outcome and the object after the call
DashSub_process(self, text) ==
  IF self.done
  THEN [raised |-> TRUE, ret |-> <<>>, self |-> self]
  ELSE LET letter == ALPHABET[self.index + 1]
           result == Replace(text, "-", letter)
           marked == IF self.index = Len(ALPHABET) - 1
                     THEN [self EXCEPT !.done = TRUE]
                     ELSE self
       IN [raised |-> FALSE, ret |-> result,
           self |-> [marked EXCEPT !.index = @ + 1]]

\* DashSub.is_done
DashSub_is_done(self) == self.done

\* current_letter that is one letter ahead
DashSub_current_letter_ahead(self) ==
  IF self.done THEN <<>>
  ELSE << ALPHABET[((self.index + 1) % Len(ALPHABET)) + 1] >>

\* DashSub.current_letter
DashSub_current_letter(self) ==
  IF self.done THEN <<>> ELSE << ALPHABET[self.index + 1] >>

\* ----------------------------------------------------------------- Search
\* Search.__init__
Search_init == [cls |-> "Search", done |-> FALSE]

\* Search.process that forgets to set the completion flag
Search_process_nodone(self, text) ==
  IF self.done
  THEN [raised |-> TRUE, ret |-> <<>>, self |-> self]
  ELSE [raised |-> FALSE, ret |-> text, self |-> self]

\* Search.process that is ready again after it raised
Search_process_rearm(self, text) ==
  IF self.done
  THEN [raised |-> TRUE, ret |-> <<>>, self |-> [self EXCEPT !.done = FALSE]]
  ELSE [raised |-> FALSE, ret |-> text, self |-> [self EXCEPT !.done = TRUE]]

\* Search.process
Search_process(self, text) ==
  IF self.done
  THEN [raised |-> TRUE, ret |-> <<>>, self |-> self]
  ELSE [raised |-> FALSE, ret |-> text, self |-> [self EXCEPT !.done = TRUE]]

\* Search.is_done
Search_is_done(self) == self.done

\* ------------------------------------------------- class-name derivation
UPPERCASE ==
  << "A","B","C","D","E","F","G","H","I","J","K","L","M",
     "N","O","P","Q","R","S","T","U","V","W","X","Y","Z" >>

\* str.upper / str.lower on one character; other characters are kept
Upper(c) ==
  IF \E i \in 1..Len(ALPHABET) : ALPHABET[i] = c
  THEN UPPERCASE[CHOOSE i \in 1..Len(ALPHABET) : ALPHABET[i] = c]
  ELSE c

Lower(c) ==
  IF \E i \in 1..Len(UPPERCASE) : UPPERCASE[i] = c
  THEN ALPHABET[CHOOSE i \in 1..Len(UPPERCASE) : UPPERCASE[i] = c]
  ELSE c

\* capitalize that leaves the first character as it is
Capitalize_lower(part) == [k \in 1..Len(part) |-> Lower(part[k])]

\* str.capitalize(): first character upper-cased, all the others lower-cased
Capitalize(part) ==
  [k \in 1..Len(part) |-> IF k = 1 THEN Upper(part[k]) ELSE Lower(part[k])]

\* str.split(sep) for a one-character separator
RECURSIVE Split(_, _)
Split(s, sep) ==
  IF ~Contains(s, sep) THEN << s >>
  ELSE LET k == CHOOSE j \in 1..Len(s) :
                  s[j] = sep /\ \A i \in 1..(j - 1) : s[i] # sep
       IN << SubSeq(s, 1, k - 1) >> \o Split(SubSeq(s, k + 1, Len(s)), sep)

\* ''.join(parts)
RECURSIVE Join(_)
Join(parts) ==
  IF parts = <<>> THEN <<>> ELSE Head(parts) \o Join(Tail(parts))

\* main: class_name = ''.join(part.capitalize() for part in module.split('_'))
ClassName(module) ==
  LET parts == Split(module, "_")
  IN Join([k \in 1..Len(parts) |-> Capitalize(parts[k])])

\* the module names of the repository that importlib can import
mod_dashsub == << "d","a","s","h","s","u","b" >>
mod_search == << "s","e","a","r","c","h" >>
mod_searchdash == << "s","e","a","r","c","h","d","a","s","h" >>
\* module names given with -m that name no module
mod_dash_sub == << "d","a","s","h","_","s","u","b" >>
mod_nosuch == << "n","o","s","u","c","h" >>

Importable == { mod_dashsub, mod_search, mod_searchdash }
ModuleArgs == { mod_dashsub, mod_search, mod_searchdash, mod_dash_sub,
                mod_nosuch }

\* the processor classes each module defines: class DashSub (dashsub.py),
\* class Search (search.py), with the constructor of each; searchdash.py
\* defines none
ModuleAttrs(module) ==
  IF module = mod_dashsub
  THEN { [name |-> << "D","a","s","h","S","u","b" >>, new |-> DashSub_init] }
  ELSE IF module = mod_search
  THEN { [name |-> << "S","e","a","r","c","h" >>, new |-> Search_init] }
  ELSE {}

\* getattr(mod, class_name): the attributes of that name (none: AttributeError)
GetAttr(module, name) == { a \in ModuleAttrs(module) : a.name = name }

\* processor.process / processor.is_done, dispatched on the object's class
Process(self, text) ==
  IF self.cls = "DashSub" THEN DashSub_process(self, text)
  ELSE Search_process(self, text)

IsDone(self) ==
  IF self.cls = "DashSub" THEN DashSub_is_done(self) ELSE Search_is_done(self)

\* --------------------------------------------------------------- pipeline
\* the default engines built in the other order
Engines_swapped == << "StartPage", "DuckDuckGo" >>

\* run_search_pipeline: engines = [DuckDuckGoSearch(), StartPageSearch()]
Engines == << "DuckDuckGo", "StartPage" >>

\* a record's snippet: empty text or some text
Snippets == { <<>>, << "s" >> }

\* what engine.search can hand back: a list of up to MaxResults records
\* (title and url stand for the record's position) or a raised Exception
ResultLists(engine) ==
  UNION { { [k \in 1..n |-> [title |-> k, url |-> k, snippet |-> f[k],
                              engine |-> engine]]
            : f \in [1..n -> Snippets] }
          : n \in 0..MaxResults }

SearchOutcomes(engine) ==
  { [raised |-> FALSE, results |-> r] : r \in ResultLists(engine) }
  \cup { [raised |-> TRUE, results |-> <<>>] }

\* list[:stop - 1]
SliceTo_short(list, stop) ==
  LET n == Len(list)
      e == IF stop - 1 < 0 THEN (IF n + stop - 1 < 0 THEN 0 ELSE n + stop - 1)
           ELSE (IF stop - 1 > n THEN n ELSE stop - 1)
  IN SubSeq(list, 1, e)

\* list[:stop] as Python slices: a negative stop counts from the end
SliceTo(list, stop) ==
  LET n == Len(list)
      e == IF stop < 0 THEN (IF n + stop < 0 THEN 0 ELSE n + stop)
           ELSE (IF stop > n THEN n ELSE stop)
  IN SubSeq(list, 1, e)

\* search_single_engine, given what engine.search did
search_single_engine(outcome, max_results) ==
  LET results == IF outcome.raised THEN <<>> ELSE outcome.results
  IN SliceTo(results, max_results)

\* one printed line: its kind, the engine it is tagged with, the number it
\* shows, the title or url it shows, its text
Line(t, engine, n, ref, text) ==
  [t |-> t, engine |-> engine, n |-> n, ref |-> ref, text |-> text]

RECURSIVE ResultLines(_, _)
ResultLines(results, i) ==
  IF i > Len(results) THEN <<>>
  ELSE << Line("title", "", i, results[i].title, <<>>),
          Line("url", "", 0, results[i].url, <<>>) >>
       \o (IF results[i].snippet # <<>>
           THEN << Line("snippet", "", 0, 0, results[i].snippet) >>
           ELSE <<>>)
       \o ResultLines(results, i + 1)

\* print_engine_results: the lines written to stdout
print_engine_results(engine_name, results) ==
  IF results = <<>>
  THEN << Line("noresults", engine_name, 0, 0, <<>>) >>
  ELSE << Line("header", engine_name, Len(results), 0, <<>>),
          Line("rule", "", 0, 0, <<>>) >>
       \o ResultLines(results, 1)
       \o << Line("blank", "", 0, 0, <<>>) >>

\* ------------------------------------------------------------------ state
VARIABLES
  ds,          \* SpecProc: a DashSub object
  sp,          \* SpecProc: a Search object
  dsCalls,     \* SpecProc: process calls made on ds so far
  spCalls,     \* SpecProc: process calls made on sp so far
  last,        \* SpecProc: the last call made and its outcome
  args,        \* main: the parsed arguments
  pc,          \* main: where the program is
  processor,   \* main: the loaded processor object, NoProcessor before
  query,       \* run_search_pipeline: its query argument
  engIdx,      \* run_search_pipeline: position of the for loop over engines
  session,     \* run_search_pipeline: the ClientSession
  inflight,    \* engines whose search has been awaited and has not returned
  overlap,     \* whether two searches were ever in flight together
  searched,    \* the (engine, query) pairs handed to engine.search, in order
  produced,    \* what each of those engine.search calls did, in order
  bounded,     \* what search_single_engine returned for each, in order
  pipelineCalls, \* the queries run_search_pipeline was called with, in order
  processCalls,  \* number of processor.process calls main made
  out,         \* the lines written to stdout
  err,         \* the diagnostics written to stderr
  exitStatus,  \* the process exit status, NoExit while running
  sigint,      \* whether a keyboard interrupt has been delivered
  net,         \* SpecLoop: what each engine's search does, every time
  engCall      \* SpecEngine: the last search call of an engine, its outcome

procVars == << ds, sp, dsCalls, spCalls, last >>
mainVars == << args, pc, processor, query, engIdx, session, inflight, overlap,
               searched, produced, bounded, pipelineCalls, processCalls, out,
               err, exitStatus >>
envVars == << sigint, net, engCall >>
vars == << ds, sp, dsCalls, spCalls, last, args, pc, processor, query, engIdx,
           session, inflight, overlap, searched, produced, bounded,
           pipelineCalls, processCalls, out, err, exitStatus, sigint, net,
           engCall >>

NoProcessor == [cls |-> "None"]
NoExit == -1
NoCall == [obj |-> "none", op |-> "none", arg |-> <<>>, raised |-> FALSE,
           ret |-> <<>>, flag |-> FALSE]

NoNet == <<>>
NoEngCall == [engine |-> "none"]

\* the values -n can be given: any integer, here -2..MaxCap
Caps == (0 - 2)..MaxCap

ProcInit ==
  /\ ds = DashSub_init
  /\ sp = Search_init
  /\ dsCalls = 0
  /\ spCalls = 0
  /\ last = NoCall

MainIdle ==
  /\ pc = "start"
  /\ processor = NoProcessor
  /\ query = <<>>
  /\ engIdx = 0
  /\ session = "none"
  /\ inflight = {}
  /\ overlap = FALSE
  /\ searched = <<>>
  /\ produced = <<>>
  /\ bounded = <<>>
  /\ pipelineCalls = <<>>
  /\ processCalls = 0
  /\ out = <<>>
  /\ err = <<>>
  /\ exitStatus = NoExit

\* no interrupt so far; the engines are not pinned down; no engine called
EnvIdle ==
  /\ sigint = FALSE
  /\ net = NoNet
  /\ engCall = NoEngCall

\* ------------------------------------------- SpecProc: calls on the objects
DSProcess(text) ==
  /\ dsCalls < MaxCalls
  /\ LET r == DashSub_process(ds, text)
     IN /\ ds' = r.self
        /\ last' = [obj |-> "ds", op |-> "process", arg |-> text,
                    raised |-> r.raised, ret |-> r.ret, flag |-> FALSE]
  /\ dsCalls' = dsCalls + 1
  /\ UNCHANGED << sp, spCalls >>
  /\ UNCHANGED mainVars
  /\ UNCHANGED envVars

DSIsDone ==
  /\ last' = [obj |-> "ds", op |-> "is_done", arg |-> <<>>, raised |-> FALSE,
              ret |-> <<>>, flag |-> DashSub_is_done(ds)]
  /\ UNCHANGED << ds, sp, dsCalls, spCalls >>
  /\ UNCHANGED mainVars
  /\ UNCHANGED envVars

DSCurrentLetter ==
  /\ last' = [obj |-> "ds", op |-> "current_letter", arg |-> <<>>,
              raised |-> FALSE, ret |-> DashSub_current_letter(ds),
              flag |-> FALSE]
  /\ UNCHANGED << ds, sp, dsCalls, spCalls >>
  /\ UNCHANGED mainVars
  /\ UNCHANGED envVars

SProcess(text) ==
  /\ spCalls < MaxCalls
  /\ LET r == Search_process(sp, text)
     IN /\ sp' = r.self
        /\ last' = [obj |-> "sp", op |-> "process", arg |-> text,
                    raised |-> r.raised, ret |-> r.ret, flag |-> FALSE]
  /\ spCalls' = spCalls + 1
  /\ UNCHANGED << ds, dsCalls >>
  /\ UNCHANGED mainVars
  /\ UNCHANGED envVars

SIsDone ==
  /\ last' = [obj |-> "sp", op |-> "is_done", arg |-> <<>>, raised |-> FALSE,
              ret |-> <<>>, flag |-> Search_is_done(sp)]
  /\ UNCHANGED << ds, sp, dsCalls, spCalls >>
  /\ UNCHANGED mainVars
  /\ UNCHANGED envVars

\* the processors under arbitrary call sequences
InitProc ==
  /\ ProcInit
  /\ MainIdle
  /\ EnvIdle
  /\ args = [search_string |-> <<>>, max_results |-> 0, module |-> mod_dashsub]

NextProc ==
  \/ \E text \in Strings : DSProcess(text)
  \/ DSIsDone
  \/ DSCurrentLetter
  \/ \E text \in Strings : SProcess(text)
  \/ SIsDone

SpecProc == InitProc /\ [][NextProc]_vars

\* ------------------------------------------------------- Spec: main()
\* one diagnostic on stderr: its kind and the engine it names, if any
Diag(t, engine) == [t |-> t, engine |-> engine]

Init ==
  /\ ProcInit
  /\ MainIdle
  /\ EnvIdle
  /\ args \in [search_string : Strings, max_results : Caps, module : ModuleArgs]

\* run_search_pipeline that starts every engine's search at once
EnterPipeline_gather(q) ==
  /\ pipelineCalls' = Append(pipelineCalls, q)
  /\ query' = q
  /\ session' = "open"
  /\ engIdx' = 1
  /\ inflight' = 1..Len(Engines)
  /\ overlap' = TRUE
  /\ searched' = searched \o [k \in 1..Len(Engines) |->
                                [engine |-> Engines[k], query |-> q]]
  /\ UNCHANGED << produced, bounded >>

\* asyncio.run(run_search_pipeline(q, ...)) up to its first await: the session
\* is opened and the first engine's search is awaited
EnterPipeline(q) ==
  /\ pipelineCalls' = Append(pipelineCalls, q)
  /\ query' = q
  /\ session' = "open"
  /\ engIdx' = 1
  /\ inflight' = {1}
  /\ overlap' = overlap
  /\ searched' = Append(searched, [engine |-> Engines[1], query |-> q])
  /\ UNCHANGED << produced, bounded >>

\* main without the single-shot branch: a dash-free string goes to the
\* default processor as well
MainSingleShot_viaProcessor ==
  /\ pc = "start"
  /\ ~Contains(args.search_string, "-")
  /\ processor' = DashSub_init
  /\ pc' = "loop_test"
  /\ UNCHANGED << args, query, engIdx, session, inflight, overlap, searched,
                  produced, bounded, pipelineCalls, processCalls, out, err,
                  exitStatus >>
  /\ UNCHANGED procVars
  /\ UNCHANGED envVars

\* main, lines 271-274: no dash in the search string
MainSingleShot ==
  /\ pc = "start"
  /\ ~Contains(args.search_string, "-")
  /\ out' = Append(out, Line("searching", "", 0, 0, args.search_string))
  /\ EnterPipeline(args.search_string)
  /\ pc' = "single"
  /\ UNCHANGED << args, processor, processCalls, err, exitStatus >>
  /\ UNCHANGED procVars
  /\ UNCHANGED envVars

\* main, lines 286-290: import_module raises ModuleNotFoundError
MainModuleNotFound ==
  /\ pc = "start"
  /\ Contains(args.search_string, "-")
  /\ args.module \notin Importable
  /\ err' = Append(err, Diag("module_not_found", ""))
  /\ exitStatus' = 1
  /\ pc' = "exit_error"
  /\ UNCHANGED << args, processor, query, engIdx, session, inflight, overlap,
                  searched, produced, bounded, pipelineCalls, processCalls,
                  out >>
  /\ UNCHANGED procVars
  /\ UNCHANGED envVars

\* main that takes the pass-through processor when the class is not there
MainClassMissing_default ==
  /\ pc = "start"
  /\ Contains(args.search_string, "-")
  /\ args.module \in Importable
  /\ GetAttr(args.module, ClassName(args.module)) = {}
  /\ processor' = Search_init
  /\ pc' = "loop_test"
  /\ UNCHANGED << args, query, engIdx, session, inflight, overlap, searched,
                  produced, bounded, pipelineCalls, processCalls, out, err,
                  exitStatus >>
  /\ UNCHANGED procVars
  /\ UNCHANGED envVars

\* main, lines 293-298: getattr raises AttributeError
MainClassMissing ==
  /\ pc = "start"
  /\ Contains(args.search_string, "-")
  /\ args.module \in Importable
  /\ GetAttr(args.module, ClassName(args.module)) = {}
  /\ err' = Append(err, Diag("no_class", ""))
  /\ exitStatus' = 1
  /\ pc' = "exit_error"
  /\ UNCHANGED << args, processor, query, engIdx, session, inflight, overlap,
                  searched, produced, bounded, pipelineCalls, processCalls,
                  out >>
  /\ UNCHANGED procVars
  /\ UNCHANGED envVars

\* main, lines 286-300: the module is imported, the class found, the
\* processor instantiated
MainLoadProcessor ==
  /\ pc = "start"
  /\ Contains(args.search_string, "-")
  /\ args.module \in Importable
  /\ \E a \in GetAttr(args.module, ClassName(args.module)) :
       processor' = a.new
  /\ pc' = "loop_test"
  /\ UNCHANGED << args, query, engIdx, session, inflight, overlap, searched,
                  produced, bounded, pipelineCalls, processCalls, out, err,
                  exitStatus >>
  /\ UNCHANGED procVars
  /\ UNCHANGED envVars

\* the loop without its is_done test: process is called whatever the state
LoopIterate_nocheck ==
  /\ pc = "loop_test"
  /\ processCalls' = processCalls + 1
  /\ LET r == Process(processor, args.search_string)
     IN /\ processor' = r.self
        /\ IF r.raised
           THEN /\ err' = Append(err, Diag("failed", ""))
                /\ exitStatus' = 1
                /\ pc' = "exit_error"
                /\ UNCHANGED << query, engIdx, session, inflight, overlap,
                                searched, produced, bounded, pipelineCalls,
                                out >>
           ELSE /\ out' = Append(out, Line("searching", "", 0, 0, r.ret))
                /\ EnterPipeline(r.ret)
                /\ pc' = "loop_run"
                /\ UNCHANGED << err, exitStatus >>
  /\ UNCHANGED args
  /\ UNCHANGED procVars
  /\ UNCHANGED envVars

\* main, lines 304-307: the loop test is true; process, print, run the pipeline
\* (a raising process is caught at line 311)
LoopIterate ==
  /\ pc = "loop_test"
  /\ ~IsDone(processor)
  /\ processCalls' = processCalls + 1
  /\ LET r == Process(processor, args.search_string)
     IN /\ processor' = r.self
        /\ IF r.raised
           THEN /\ err' = Append(err, Diag("failed", ""))
                /\ exitStatus' = 1
                /\ pc' = "exit_error"
                /\ UNCHANGED << query, engIdx, session, inflight, overlap,
                                searched, produced, bounded, pipelineCalls,
                                out >>
           ELSE /\ out' = Append(out, Line("searching", "", 0, 0, r.ret))
                /\ EnterPipeline(r.ret)
                /\ pc' = "loop_run"
                /\ UNCHANGED << err, exitStatus >>
  /\ UNCHANGED args
  /\ UNCHANGED procVars
  /\ UNCHANGED envVars

\* main, line 304: the loop test is false; main returns
LoopExit ==
  /\ pc = "loop_test"
  /\ IsDone(processor)
  /\ pc' = "done"
  /\ exitStatus' = 0
  /\ UNCHANGED << args, processor, query, engIdx, session, inflight, overlap,
                  searched, produced, bounded, pipelineCalls, processCalls,
                  out, err >>
  /\ UNCHANGED procVars
  /\ UNCHANGED envVars

\* search_single_engine without its try/except: a raising engine.search ends
\* the pipeline run, and main reports the failure and exits
SearchCompletes_propagates(outcome) ==
  /\ session = "open"
  /\ inflight = {engIdx}
  /\ produced' = Append(produced, outcome)
  /\ IF outcome.raised
     THEN /\ err' = Append(err, Diag("failed", ""))
          /\ inflight' = {}
          /\ session' = "closed"
          /\ pc' = "exit_error"
          /\ exitStatus' = 1
          /\ UNCHANGED << out, bounded, engIdx, searched >>
     ELSE /\ out' = out \o print_engine_results(Engines[engIdx],
                       SliceTo(outcome.results, args.max_results))
          /\ bounded' = Append(bounded,
                               SliceTo(outcome.results, args.max_results))
          /\ engIdx' = engIdx + 1
          /\ UNCHANGED err
          /\ IF engIdx < Len(Engines)
             THEN /\ inflight' = {engIdx + 1}
                  /\ searched' = Append(searched,
                        [engine |-> Engines[engIdx + 1], query |-> query])
                  /\ UNCHANGED << session, pc, exitStatus >>
             ELSE /\ inflight' = {}
                  /\ session' = "closed"
                  /\ pc' = IF pc = "single" THEN "done" ELSE "loop_test"
                  /\ exitStatus' = IF pc = "single" THEN 0 ELSE exitStatus
                  /\ UNCHANGED searched
  /\ overlap' = overlap
  /\ UNCHANGED << args, processor, query, pipelineCalls, processCalls >>
  /\ UNCHANGED procVars
  /\ UNCHANGED envVars

\* run_search_pipeline that hands the engines after the first the raw search
\* string instead of its query argument
SearchCompletes_rawquery(outcome) ==
  /\ session = "open"
  /\ inflight = {engIdx}
  /\ LET engine == Engines[engIdx]
         results == search_single_engine(outcome, args.max_results)
     IN /\ err' = IF outcome.raised
                  THEN Append(err, Diag("search_failed", engine))
                  ELSE err
        /\ out' = out \o print_engine_results(engine, results)
        /\ produced' = Append(produced, outcome)
        /\ bounded' = Append(bounded, results)
  /\ engIdx' = engIdx + 1
  /\ IF engIdx < Len(Engines)
     THEN /\ inflight' = {engIdx + 1}
          /\ searched' = Append(searched, [engine |-> Engines[engIdx + 1],
                                           query |-> args.search_string])
          /\ UNCHANGED << session, pc, exitStatus >>
     ELSE /\ inflight' = {}
          /\ session' = "closed"
          /\ pc' = IF pc = "single" THEN "done" ELSE "loop_test"
          /\ exitStatus' = IF pc = "single" THEN 0 ELSE exitStatus
          /\ UNCHANGED searched
  /\ overlap' = (overlap \/ Cardinality(inflight') >= 2)
  /\ UNCHANGED << args, processor, query, pipelineCalls, processCalls >>
  /\ UNCHANGED procVars
  /\ UNCHANGED envVars

\* run_search_pipeline, lines 218-220: the awaited engine.search returns or
\* raises; search_single_engine bounds the result, print_engine_results
\* renders it, and the for loop awaits the next engine's search or, after the
\* last engine, leaves the session block and returns to main
SearchCompletes(outcome) ==
  /\ session = "open"
  /\ inflight = {engIdx}
  /\ LET engine == Engines[engIdx]
         results == search_single_engine(outcome, args.max_results)
     IN /\ err' = IF outcome.raised
                  THEN Append(err, Diag("search_failed", engine))
                  ELSE err
        /\ out' = out \o print_engine_results(engine, results)
        /\ produced' = Append(produced, outcome)
        /\ bounded' = Append(bounded, results)
  /\ engIdx' = engIdx + 1
  /\ IF engIdx < Len(Engines)
     THEN /\ inflight' = {engIdx + 1}
          /\ searched' = Append(searched, [engine |-> Engines[engIdx + 1],
                                           query |-> query])
          /\ UNCHANGED << session, pc, exitStatus >>
     ELSE /\ inflight' = {}
          /\ session' = "closed"
          /\ pc' = IF pc = "single" THEN "done" ELSE "loop_test"
          /\ exitStatus' = IF pc = "single" THEN 0 ELSE exitStatus
          /\ UNCHANGED searched
  /\ overlap' = (overlap \/ Cardinality(inflight') >= 2)
  /\ UNCHANGED << args, processor, query, pipelineCalls, processCalls >>
  /\ UNCHANGED procVars
  /\ UNCHANGED envVars

\* the awaited engine does one of the things an engine can do
EngineReturns ==
  /\ session = "open"
  /\ \E o \in SearchOutcomes(Engines[engIdx]) : SearchCompletes(o)

\* search_single_engine catching BaseException: the interrupt becomes an
\* empty result of the awaited engine and the run goes on
Interrupt_absorbed ==
  /\ session = "open"
  /\ inflight = {engIdx}
  /\ sigint' = TRUE
  /\ err' = Append(err, Diag("search_failed", Engines[engIdx]))
  /\ out' = out \o print_engine_results(Engines[engIdx], <<>>)
  /\ produced' = Append(produced, [raised |-> TRUE, results |-> <<>>])
  /\ bounded' = Append(bounded, <<>>)
  /\ engIdx' = engIdx + 1
  /\ IF engIdx < Len(Engines)
     THEN /\ inflight' = {engIdx + 1}
          /\ searched' = Append(searched, [engine |-> Engines[engIdx + 1],
                                           query |-> query])
          /\ UNCHANGED << session, pc, exitStatus >>
     ELSE /\ inflight' = {}
          /\ session' = "closed"
          /\ pc' = IF pc = "single" THEN "done" ELSE "loop_test"
          /\ exitStatus' = IF pc = "single" THEN 0 ELSE exitStatus
          /\ UNCHANGED searched
  /\ UNCHANGED << args, processor, query, overlap, pipelineCalls,
                  processCalls >>
  /\ UNCHANGED << net, engCall >>
  /\ UNCHANGED procVars

\* the interrupt leaves run_search_pipeline without closing the session
Interrupt_leak ==
  /\ session = "open"
  /\ inflight # {}
  /\ inflight' = {}
  /\ err' = Append(err, Diag("interrupted", ""))
  /\ exitStatus' = 1
  /\ pc' = "exit_error"
  /\ sigint' = TRUE
  /\ UNCHANGED << args, processor, query, engIdx, session, overlap, searched,
                  produced, bounded, pipelineCalls, processCalls, out >>
  /\ UNCHANGED << net, engCall >>
  /\ UNCHANGED procVars

\* KeyboardInterrupt while a search is awaited: it is no Exception, so
\* search_single_engine lets it through; the session block is left and main
\* (lines 275-277, 308-310) reports it and exits with status 1
Interrupt ==
  /\ session = "open"
  /\ inflight # {}
  /\ inflight' = {}
  /\ session' = "closed"
  /\ err' = Append(err, Diag("interrupted", ""))
  /\ exitStatus' = 1
  /\ pc' = "exit_error"
  /\ sigint' = TRUE
  /\ UNCHANGED << args, processor, query, engIdx, overlap, searched,
                  produced, bounded, pipelineCalls, processCalls, out >>
  /\ UNCHANGED << net, engCall >>
  /\ UNCHANGED procVars

Next ==
  \/ MainSingleShot
  \/ MainModuleNotFound
  \/ MainClassMissing
  \/ MainLoadProcessor
  \/ LoopIterate
  \/ LoopExit
  \/ EngineReturns
  \/ Interrupt

Spec == Init /\ [][Next]_vars

\* main keeps running and an awaited search ends (each request has a timeout)
FairSpec == Spec /\ WF_vars(Next)

\* ------------------------------------- SpecLoop: main over many iterations
\* an engine that does the same on every search: it raises, finds nothing, or
\* finds MaxResults records (every other one with a snippet)
SteadyOutcomes(engine) ==
  { [raised |-> TRUE, results |-> <<>>],
    [raised |-> FALSE, results |-> <<>>],
    [raised |-> FALSE,
     results |-> [k \in 1..MaxResults |->
                    [title |-> k, url |-> k,
                     snippet |-> IF k % 2 = 1 THEN << "s" >> ELSE <<>>,
                     engine |-> engine]]] }

Worlds == { w \in [1..Len(Engines) -> UNION { SteadyOutcomes(Engines[e]) :
                                               e \in 1..Len(Engines) }] :
              \A e \in 1..Len(Engines) : w[e] \in SteadyOutcomes(Engines[e]) }

\* main at line 303 with processor an instance of class DashSub, the object
\* processor_cls() of line 300 gives for that class; nothing has run yet.
\* (With class Search, MainLoadProcessor leads to the same point.)
LoopEntered ==
  /\ pc = "loop_test"
  /\ Contains(args.search_string, "-")
  /\ args.module = mod_dashsub
  /\ processor = DashSub_init
  /\ query = <<>>
  /\ engIdx = 0
  /\ session = "none"
  /\ inflight = {}
  /\ overlap = FALSE
  /\ searched = <<>>
  /\ produced = <<>>
  /\ bounded = <<>>
  /\ pipelineCalls = <<>>
  /\ processCalls = 0
  /\ out = <<>>
  /\ err = <<>>
  /\ exitStatus = NoExit

\* main from its start, and the driver loop entered with a processor of
\* either class, over engines that behave the same on every search
InitLoop ==
  /\ ProcInit
  /\ sigint = FALSE
  /\ engCall = NoEngCall
  /\ net \in Worlds
  /\ args \in [search_string : Strings, max_results : Caps, module : ModuleArgs]
  /\ (MainIdle \/ LoopEntered)

\* the awaited engine does what it always does
EngineResponds ==
  /\ session = "open"
  /\ net # NoNet
  /\ SearchCompletes(net[engIdx])

\* the awaited search is over but stdout is gone (a closed pipe): the first
\* print of print_engine_results raises OSError, an Exception that
\* run_search_pipeline lets through; the session block is left and main
\* (lines 278-280, 311-313) reports the failure and exits with status 1
StdoutFails ==
  /\ session = "open"
  /\ inflight = {engIdx}
  /\ net # NoNet
  /\ LET outcome == net[engIdx]
     IN /\ produced' = Append(produced, outcome)
        /\ bounded' = Append(bounded,
                             search_single_engine(outcome, args.max_results))
        /\ err' = (IF outcome.raised
                   THEN Append(err, Diag("search_failed", Engines[engIdx]))
                   ELSE err) \o << Diag("failed", "") >>
  /\ inflight' = {}
  /\ session' = "closed"
  /\ exitStatus' = 1
  /\ pc' = "exit_error"
  /\ UNCHANGED << args, processor, query, engIdx, overlap, searched,
                  pipelineCalls, processCalls, out >>
  /\ UNCHANGED procVars
  /\ UNCHANGED envVars

\* the handler of line 308 without its sys.exit: main ends normally
InterruptInLoop_noexit ==
  /\ pc = "loop_test"
  /\ sigint' = TRUE
  /\ err' = Append(err, Diag("interrupted", ""))
  /\ exitStatus' = 0
  /\ pc' = "done"
  /\ UNCHANGED << args, processor, query, engIdx, session, inflight, overlap,
                  searched, produced, bounded, pipelineCalls, processCalls,
                  out >>
  /\ UNCHANGED << net, engCall >>
  /\ UNCHANGED procVars

\* KeyboardInterrupt in main's own code between two pipeline runs (lines
\* 304-306): caught at line 308, reported, exit status 1
InterruptInLoop ==
  /\ pc = "loop_test"
  /\ sigint' = TRUE
  /\ err' = Append(err, Diag("interrupted", ""))
  /\ exitStatus' = 1
  /\ pc' = "exit_error"
  /\ UNCHANGED << args, processor, query, engIdx, session, inflight, overlap,
                  searched, produced, bounded, pipelineCalls, processCalls,
                  out >>
  /\ UNCHANGED << net, engCall >>
  /\ UNCHANGED procVars

NextLoop ==
  \/ MainSingleShot
  \/ MainModuleNotFound
  \/ MainClassMissing
  \/ MainLoadProcessor
  \/ LoopIterate
  \/ LoopExit
  \/ EngineResponds
  \/ StdoutFails
  \/ Interrupt
  \/ InterruptInLoop

SpecLoop == InitLoop /\ [][NextLoop]_vars

\* ------------------------------------- SpecEngine: the two engines' search
\* response.status of a successful request
HTTP_OK == 200
Statuses == { HTTP_OK, 404, 503 }

\* a result container of the page: which of its elements are there
Divs == [title : BOOLEAN, url : BOOLEAN, snippet : BOOLEAN]

RECURSIVE PagesOfLen(_)
PagesOfLen(n) ==
  IF n = 0 THEN { <<>> }
  ELSE { Append(p, d) : p \in PagesOfLen(n - 1), d \in Divs }

Pages == UNION { PagesOfLen(n) : n \in 0..MaxDivs }

\* what the network does to one request: it fails before a response is there
\* (fail, at "request"), answers with a status other than 200, or answers 200
\* and the body fails (fail, at "body") or arrives as a page.  "timeout" is
\* asyncio.TimeoutError, "error" any other Exception (aiohttp.ClientError);
\* "cancelled" is CancelledError, which is no Exception
Transports ==
  { [fail |-> f, at |-> "request", status |-> 0, page |-> <<>>]
      : f \in {"timeout", "error", "cancelled"} }
  \cup { [fail |-> "none", at |-> "none", status |-> st, page |-> <<>>]
           : st \in Statuses \ {HTTP_OK} }
  \cup { [fail |-> f, at |-> "body", status |-> HTTP_OK, page |-> <<>>]
           : f \in {"timeout", "error", "cancelled"} }
  \cup { [fail |-> "none", at |-> "none", status |-> HTTP_OK, page |-> p]
           : p \in Pages }

\* the parsing loop of DuckDuckGoSearch.search: a container without a title
\* link is dropped, the url is the title link's href, a missing snippet is ''
RECURSIVE DuckDuckGoParse(_, _)
DuckDuckGoParse(page, k) ==
  IF k > Len(page) THEN <<>>
  ELSE (IF page[k].title
        THEN << [title |-> k, url |-> "title_href",
                 snippet |-> IF page[k].snippet THEN << "s" >> ELSE <<>>,
                 engine |-> "DuckDuckGo"] >>
        ELSE <<>>)
       \o DuckDuckGoParse(page, k + 1)

\* the parsing loop of StartPageSearch.search: the url is the url link's href
\* if there is one, else the title link's
RECURSIVE StartPageParse(_, _)
StartPageParse(page, k) ==
  IF k > Len(page) THEN <<>>
  ELSE (IF page[k].title
        THEN << [title |-> k,
                 url |-> IF page[k].url THEN "url_href" ELSE "title_href",
                 snippet |-> IF page[k].snippet THEN << "s" >> ELSE <<>>,
                 engine |-> "StartPage"] >>
        ELSE <<>>)
       \o StartPageParse(page, k + 1)

\* the try block of a search: the exception it ends with ("none": it ran
\* through), whether it returned from inside the block, the results list then
TryBlock(t, parsed) ==
  IF t.fail # "none" /\ t.at = "request"
  THEN [exc |-> t.fail, results |-> <<>>, log |-> <<>>]
  ELSE IF t.status # HTTP_OK
  THEN [exc |-> "none", results |-> <<>>, log |-> << "status" >>]
  ELSE IF t.fail # "none"
  THEN [exc |-> t.fail, results |-> <<>>, log |-> <<>>]
  ELSE [exc |-> "none", results |-> parsed, log |-> <<>>]

\* the except clauses of a search: asyncio.TimeoutError, then Exception; what
\* they do not catch leaves the search
Handlers(body) ==
  IF body.exc = "none"
  THEN [raised |-> FALSE, results |-> body.results, log |-> body.log]
  ELSE IF body.exc = "timeout"
  THEN [raised |-> FALSE, results |-> body.results, log |-> << "timeout" >>]
  ELSE IF body.exc = "error"
  THEN [raised |-> FALSE, results |-> body.results, log |-> << "error" >>]
  ELSE [raised |-> TRUE, results |-> <<>>, log |-> <<>>]

\* DuckDuckGoSearch.search with only the except asyncio.TimeoutError clause
DuckDuckGoSearch_search_timeoutonly(t) ==
  LET body == TryBlock(t, DuckDuckGoParse(t.page, 1))
  IN IF body.exc = "none"
     THEN [raised |-> FALSE, results |-> body.results, log |-> body.log]
     ELSE IF body.exc = "timeout"
     THEN [raised |-> FALSE, results |-> body.results, log |-> << "timeout" >>]
     ELSE [raised |-> TRUE, results |-> <<>>, log |-> <<>>]

\* DuckDuckGoSearch.search
DuckDuckGoSearch_search(t) == Handlers(TryBlock(t, DuckDuckGoParse(t.page, 1)))

\* StartPageSearch.search
StartPageSearch_search(t) == Handlers(TryBlock(t, StartPageParse(t.page, 1)))

InitEngine ==
  /\ ProcInit
  /\ MainIdle
  /\ EnvIdle
  /\ args = [search_string |-> <<>>, max_results |-> 0, module |-> mod_dashsub]

DuckDuckGoSearches ==
  /\ \E t \in Transports :
       engCall' = [engine |-> "DuckDuckGo", transport |-> t,
                   outcome |-> DuckDuckGoSearch_search(t)]
  /\ UNCHANGED << sigint, net >>
  /\ UNCHANGED mainVars
  /\ UNCHANGED procVars

StartPageSearches ==
  /\ \E t \in Transports :
       engCall' = [engine |-> "StartPage", transport |-> t,
                   outcome |-> StartPageSearch_search(t)]
  /\ UNCHANGED << sigint, net >>
  /\ UNCHANGED mainVars
  /\ UNCHANGED procVars

NextEngine ==
  \/ DuckDuckGoSearches
  \/ StartPageSearches

SpecEngine == InitEngine /\ [][NextEngine]_vars

\* =================================================================== claims
\* a string has a placeholder character
HasDash(s) == \E k \in DOMAIN s : s[k] = "-"

\* s with every '-' turned into letter c, position by position
IsSubstitution(t, s, c) ==
  /\ Len(t) = Len(s)
  /\ \A k \in 1..Len(s) : t[k] = (IF s[k] = "-" THEN c ELSE s[k])

LastIs(obj, op) == last.obj = obj /\ last.op = op

\* C1: on a fresh DashSub, call i of process (i in 1..26) returns its input
\* with every '-' replaced by the i-th lowercase letter (the empty string
\* gives the empty string), and is_done() is false after calls 1..25 and true
\* after call 26.
C1_FullCycle ==
  /\ (LastIs("ds", "process") /\ dsCalls \in 1..26) =>
        /\ ~last.raised
        /\ IsSubstitution(last.ret, last.arg, ALPHABET[dsCalls])
        /\ (last.arg = <<>> => last.ret = <<>>)
  /\ dsCalls \in 0..25 => ~DashSub_is_done(ds)
  /\ dsCalls = 26 => DashSub_is_done(ds)
  /\ (LastIs("ds", "is_done") /\ dsCalls <= 26) => (last.flag <=> dsCalls = 26)

C1_Witness ==
  /\ LastIs("ds", "process")
  /\ dsCalls = 26
  /\ last.arg = << "-", "-" >>
  /\ last.ret = << "z", "z" >>
  /\ DashSub_is_done(ds)

\* C8: a process call on a DashSub that is done (the 27th call and every later
\* one) raises StopIteration and returns no string, whatever the input.
C8_RaisesWhenDone ==
  [][(DashSub_is_done(ds) /\ dsCalls' = dsCalls + 1) =>
       (dsCalls >= 26 /\ last'.op = "process" /\ last'.raised
          /\ last'.ret = <<>>)]_vars

C8_Witness ==
  /\ LastIs("ds", "process")
  /\ dsCalls = 28
  /\ last.raised
  /\ HasDash(last.arg)

\* C9: a fresh Search is not done; its first process(s) returns s unchanged for
\* every s; it is done right after that call; every later process call raises
\* StopIteration.
C9_PassThrough ==
  /\ spCalls = 0 => ~Search_is_done(sp)
  /\ spCalls >= 1 => Search_is_done(sp)
  /\ (LastIs("sp", "process") /\ spCalls = 1) =>
        (~last.raised /\ last.ret = last.arg)
  /\ (LastIs("sp", "process") /\ spCalls >= 2) => last.raised
  /\ LastIs("sp", "is_done") => (last.flag <=> spCalls >= 1)

C9_Witness ==
  /\ LastIs("sp", "process")
  /\ spCalls = 2
  /\ last.raised
  /\ Search_is_done(sp)

\* ---------------------------------------------------- claims about main
Raw == args.search_string

Interrupted == \E k \in DOMAIN err : err[k].t = "interrupted"

IsPrefix(a, b) == Len(a) <= Len(b) /\ \A k \in 1..Len(a) : a[k] = b[k]

\* the engine list main runs the pipeline over, in order
EngineOrder == << "DuckDuckGo", "StartPage" >>

\* the 26 queries of a full letter cycle over s
CycleOf(s) ==
  [i \in 1..26 |-> [k \in 1..Len(s) |-> IF s[k] = "-" THEN ALPHABET[i] ELSE s[k]]]

\* the rendered blocks of an output: for each "found"/"no results" line, the
\* engine it names, the count it shows and the titles printed under it
IsBlockStart(l) == l.t \in {"header", "noresults"}

IsTitleLine(l) == l.t = "title"

Blocks(lines) ==
  LET starts == { k \in DOMAIN lines : IsBlockStart(lines[k]) }
      pos(i) == CHOOSE k \in starts : Cardinality({ j \in starts : j <= k }) = i
      end(i) == IF i = Cardinality(starts) THEN Len(lines) ELSE pos(i + 1) - 1
      under(i) == SelectSeq(SubSeq(lines, pos(i) + 1, end(i)), IsTitleLine)
  IN [i \in 1..Cardinality(starts) |->
        [engine |-> lines[pos(i)].engine, kind |-> lines[pos(i)].t,
         count |-> lines[pos(i)].n,
         titles |-> [j \in 1..Len(under(i)) |-> under(i)[j].ref]]]

Min(a, b) == IF a <= b THEN a ELSE b

\* C2: with a '-' in the raw query and the default module dashsub, main runs
\* the pipeline exactly 26 times, run i with every '-' replaced by the i-th
\* letter, and ends in DONE without an error exit.
C2_DefaultCycleRuns26 ==
  (args.module = mod_dashsub /\ HasDash(Raw)) =>
     /\ IsPrefix(pipelineCalls, CycleOf(Raw))
     /\ (pc = "exit_error" => Interrupted)
     /\ (pc = "done" => (pipelineCalls = CycleOf(Raw) /\ exitStatus = 0))

\* C3: with no '-' in the raw query main runs the pipeline exactly once, with
\* the raw query unchanged, and reaches DONE (unless interrupted); no processor
\* is loaded or called.
C3_SingleShot ==
  /\ [](~HasDash(Raw) =>
          /\ processor = NoProcessor
          /\ processCalls = 0
          /\ IsPrefix(pipelineCalls, << Raw >>)
          /\ \A k \in DOMAIN searched : searched[k].query = Raw
          /\ (pc = "exit_error" => Interrupted)
          /\ (pc = "done" =>
                /\ pipelineCalls = << Raw >>
                /\ Len(searched) = Len(EngineOrder)
                /\ exitStatus = 0))
  /\ (~HasDash(Raw) ~> (pc = "done" \/ Interrupted))

C3_Witness ==
  /\ Raw = << "x", "x" >>
  /\ pc = "done"
  /\ pipelineCalls = << Raw >>
  /\ processor = NoProcessor
  /\ Len(Blocks(out)) = 2

\* C4: search_single_engine never returns more than cap entries (none for a
\* cap below zero), for every cap -n can carry and every number of results
\* the engine produces.
C4_NeverMoreThanCap ==
  \A k \in DOMAIN bounded :
     Len(bounded[k]) <= (IF args.max_results < 0 THEN 0 ELSE args.max_results)

\* C5: if the search of one engine raises an exception, every other engine of
\* the list is still searched and rendered, in the engine order, with its
\* full results up to the cap, whatever the position of the failing engine.
C5_FailureIsolated ==
  LET blocks == Blocks(out)
  IN /\ Len(blocks) = Len(produced)
     /\ Len(produced) <= Len(EngineOrder)
     /\ (session = "open" => (Len(searched) = Len(produced) + 1
                              /\ inflight = {Len(produced) + 1}))
     /\ \A k \in DOMAIN searched : searched[k].engine = EngineOrder[k]
     /\ \A k \in DOMAIN produced :
          /\ blocks[k].engine = EngineOrder[k]
          /\ produced[k].raised => blocks[k].kind = "noresults"
          /\ (~produced[k].raised /\ args.max_results >= 0) =>
               LET n == Min(Len(produced[k].results), args.max_results)
               IN /\ blocks[k].count = n
                  /\ blocks[k].titles =
                       [i \in 1..n |-> produced[k].results[i].title]

C5_Witness ==
  /\ Len(produced) = 2
  /\ produced[1].raised
  /\ Len(produced[2].results) = 3
  /\ args.max_results = 2
  /\ Blocks(out)[2].titles = << 1, 2 >>
  /\ pc = "done"

\* C6: within a pipeline run the per-engine blocks come out strictly in the
\* order of the engine list, block k being engine k's, and each block is out
\* before the next engine's search returns.
C6_RenderInEngineOrder ==
  LET blocks == Blocks(out)
  IN /\ \A k \in DOMAIN blocks :
          blocks[k].engine = EngineOrder[((k - 1) % Len(EngineOrder)) + 1]
     /\ Len(blocks) = Len(produced)
     /\ (session = "closed" /\ ~Interrupted) =>
          Len(blocks) = Len(EngineOrder) * Len(pipelineCalls)

C6_Witness ==
  /\ Len(Blocks(out)) = 2
  /\ Blocks(out)[1].kind = "header"
  /\ Blocks(out)[1].engine = "DuckDuckGo"
  /\ Blocks(out)[2].kind = "header"
  /\ Blocks(out)[2].engine = "StartPage"

\* C7 as claimed: a pipeline run that searched both engines had the two
\* searches in flight at the same time.
C7_SearchesOverlap ==
  (session = "closed" /\ Len(produced) = Len(EngineOrder)) => overlap

\* C7 as amended: the searches of one pipeline run are issued one after the
\* other; at most one is in flight, and engine k's search is issued only when
\* the blocks of engines 1..k-1 are out.
C7_OneSearchAtATime ==
  /\ Cardinality(inflight) <= 1
  /\ ~overlap
  /\ \A k \in inflight : Len(Blocks(out)) = k - 1 /\ Len(searched) = k

C7_Witness ==
  /\ inflight = {2}
  /\ Len(Blocks(out)) = 1
  /\ Len(searched) = 2

\* C10: with module 'search' and a '-' in the raw query, main runs the
\* pipeline exactly once, with the raw query as given, and reaches DONE
\* (unless interrupted).
C10_SearchModuleOnce ==
  /\ []((args.module = mod_search /\ HasDash(Raw)) =>
          /\ IsPrefix(pipelineCalls, << Raw >>)
          /\ processCalls <= 1
          /\ \A k \in DOMAIN searched : searched[k].query = Raw
          /\ (pc = "exit_error" => Interrupted)
          /\ (pc = "done" =>
                /\ pipelineCalls = << Raw >>
                /\ Len(searched) = Len(EngineOrder)
                /\ exitStatus = 0))
  /\ ((args.module = mod_search /\ HasDash(Raw)) ~>
        (pc = "done" \/ Interrupted))

C10_Witness ==
  /\ args.module = mod_search
  /\ Raw = << "x", "-" >>
  /\ pc = "done"
  /\ pipelineCalls = << << "x", "-" >> >>
  /\ processCalls = 1

\* C11: if engine.search raises an exception, search_single_engine returns an
\* empty sequence and the exception does not reach its caller: the pipeline
\* run goes on and main does not see a failure.
C11_RaiseGivesEmpty ==
  /\ Len(bounded) = Len(produced)
  /\ \A k \in DOMAIN produced :
        produced[k].raised =>
          /\ bounded[k] = <<>>
          /\ \E j \in DOMAIN err :
               err[j] = [t |-> "search_failed", engine |-> EngineOrder[k]]
          /\ (k < Len(EngineOrder) /\ ~Interrupted) => Len(searched) > k
  /\ \A j \in DOMAIN err : err[j].t # "failed"
  /\ pc = "exit_error" =>
       (Interrupted \/ \E j \in DOMAIN err :
                          err[j].t \in {"no_class", "module_not_found"})

C11_Witness ==
  /\ Len(produced) = 2
  /\ produced[1].raised
  /\ produced[2].raised
  /\ bounded = << <<>>, <<>> >>
  /\ pc = "done"
  /\ exitStatus = 0

\* C15: for both built-in names the strategy selection of main yields a
\* processor and no error exit: 'dashsub' gives a DashSub, 'search' a Search.
C15_BuiltinNamesResolve ==
  (HasDash(Raw) /\ args.module \in {mod_dashsub, mod_search} /\ pc # "start")
    => /\ processor.cls = (IF args.module = mod_dashsub THEN "DashSub"
                           ELSE "Search")
       /\ \A j \in DOMAIN err :
             err[j].t \notin {"no_class", "module_not_found"}

\* C16: in every state of a DashSub, under any sequence of process, is_done
\* and current_letter calls (failing process calls included), the cursor is in
\* 0..26 and is_done() is true exactly when the cursor is 26.
C16_CursorRange ==
  /\ ds.index \in 0..26
  /\ DashSub_is_done(ds) <=> ds.index = 26
  /\ LastIs("ds", "is_done") => (last.flag <=> ds.index = 26)

C16_Witness ==
  /\ ds.index = 26
  /\ DashSub_is_done(ds)
  /\ dsCalls = 28
  /\ LastIs("ds", "process")
  /\ last.raised

\* C18: for every cap >= 0 and every result sequence r of length n the engine
\* hands back, search_single_engine returns the first min(cap, n) entries of r
\* in their order: all of r when n <= cap, nothing when cap = 0.
C18_FirstMinCapEntries ==
  args.max_results >= 0 =>
    \A k \in DOMAIN bounded :
       ~produced[k].raised =>
          LET r == produced[k].results
              m == Min(args.max_results, Len(r))
          IN /\ Len(bounded[k]) = m
             /\ \A i \in 1..m : bounded[k][i] = r[i]
             /\ (Len(r) <= args.max_results => bounded[k] = r)
             /\ (args.max_results = 0 => bounded[k] = <<>>)

C18_Witness ==
  /\ args.max_results = 2
  /\ Len(produced) >= 1
  /\ Len(produced[1].results) = 3
  /\ bounded[1] = << produced[1].results[1], produced[1].results[2] >>

\* C19: while a DashSub is not done, current_letter is the letter the next
\* process call substitutes for '-'; once done it is the empty string; reading
\* current_letter or is_done changes neither the cursor nor the flag.
C19_CurrentLetter ==
  /\ [](DashSub_is_done(ds) => DashSub_current_letter(ds) = <<>>)
  /\ [](~DashSub_is_done(ds) => Len(DashSub_current_letter(ds)) = 1)
  /\ [](LastIs("ds", "current_letter") =>
          last.ret = DashSub_current_letter(ds))
  /\ [][(dsCalls' = dsCalls + 1 /\ ~DashSub_is_done(ds)) =>
          (/\ ~last'.raised
           /\ IsSubstitution(last'.ret, last'.arg,
                             DashSub_current_letter(ds)[1]))]_vars
  /\ [][(dsCalls' = dsCalls) => ds' = ds]_vars

C19_Witness ==
  /\ LastIs("ds", "current_letter")
  /\ dsCalls = 2
  /\ last.ret = << "c" >>

\* the diagnostics main itself printed before exiting
MainDiags == { j \in DOMAIN err : err[j].t # "search_failed" }

Failed == \E k \in DOMAIN err : err[k].t = "failed"

\* C12: an interrupt arriving during an iteration of the driver loop aborts
\* the loop at once: main exits with status 1, no later process call is made,
\* no later pipeline run or search is started, nothing more is written to
\* stdout, and the interrupt is not turned into an empty engine result.
C12_InterruptAborts ==
  /\ [](sigint => (/\ pc = "exit_error"
                   /\ exitStatus = 1
                   /\ Interrupted
                   /\ inflight = {}))
  /\ [][(sigint' /\ ~sigint) =>
          (/\ err' = Append(err, [t |-> "interrupted", engine |-> ""])
           /\ UNCHANGED << out, produced, bounded, searched, pipelineCalls,
                           processCalls, processor >>)]_vars
  /\ [][sigint => (UNCHANGED << out, produced, bounded, searched,
                                pipelineCalls, processCalls, processor >>)]_vars

C12_Witness ==
  /\ sigint
  /\ processor.cls = "DashSub"
  /\ processCalls = 3
  /\ Len(pipelineCalls) = 3
  /\ Len(Blocks(out)) = 5
  /\ pc = "exit_error"

\* C13: the session of a pipeline run is released on every way out of
\* run_search_pipeline (normal end, exception, interrupt): a session is open
\* only while main is inside a pipeline run, and never in a terminal state.
C13_SessionReleased ==
  /\ session = "open" <=> pc \in {"single", "loop_run"}
  /\ pc \in {"start", "loop_test", "done", "exit_error"} =>
        (session \in {"none", "closed"} /\ inflight = {})
  /\ pipelineCalls # <<>> /\ session # "open" => session = "closed"

C13_Witness ==
  /\ pc = "exit_error"
  /\ Failed
  /\ session = "closed"
  /\ Len(pipelineCalls) = 2

\* C14: the exit status is 0 exactly when the driver completes normally, with
\* every scheduled pipeline run finished; an interrupt or an exception that
\* escapes a pipeline run or the processor ends main with status 1 after one
\* diagnostic line of main, and nothing runs after that.
C14_ExitStatus ==
  /\ [](exitStatus = 0 <=> pc = "done")
  /\ [](exitStatus = NoExit <=> pc \notin {"done", "exit_error"})
  /\ [](pc = "done" =>
          /\ MainDiags = {}
          /\ ~sigint
          /\ session = "closed"
          /\ Len(produced) = Len(EngineOrder) * Len(pipelineCalls)
          /\ Len(Blocks(out)) = Len(produced)
          /\ Len(pipelineCalls) =
               (IF processor = NoProcessor THEN 1
                ELSE IF processor.cls = "DashSub" THEN 26 ELSE 1))
  /\ [](pc = "exit_error" =>
          /\ exitStatus = 1
          /\ Cardinality(MainDiags) = 1
          /\ Len(err) \in MainDiags)
  /\ []((sigint \/ Failed) => pc = "exit_error")
  /\ [][(pc \in {"done", "exit_error"}) => (vars' = vars)]_vars

C14_Witness ==
  /\ pc = "exit_error"
  /\ exitStatus = 1
  /\ Failed
  /\ processCalls = 2
  /\ Len(Blocks(out)) = 3

\* C20: in the driver loop, with a DashSub or a Search, process is called
\* only when is_done() is false, so the call never raises StopIteration: every
\* process call of main is followed by a pipeline run.
C20_ProcessOnlyWhenNotDone ==
  /\ [][processCalls' # processCalls =>
          (/\ ~processor.done
           /\ pc = "loop_test"
           /\ processCalls' = processCalls + 1
           /\ pc' = "loop_run"
           /\ Len(pipelineCalls') = processCalls')]_vars
  /\ [](processor # NoProcessor =>
          processCalls <= (IF processor.cls = "DashSub" THEN 26 ELSE 1))

C20_Witness ==
  /\ processor.cls = "DashSub"
  /\ processCalls = 26
  /\ pc = "done"

\* C17: an engine's search does not raise on a transport failure, a timeout
\* or a response status other than 200: it returns an empty result sequence.
C17_EngineNeverRaises ==
  (engCall # NoEngCall
     /\ (engCall.transport.fail \in {"timeout", "error"}
           \/ (engCall.transport.at = "none"
                 /\ engCall.transport.status # 200)))
    => (/\ ~engCall.outcome.raised
        /\ engCall.outcome.results = <<>>
        /\ engCall.outcome.log # <<>>)

C17_Witness ==
  /\ engCall # NoEngCall
  /\ engCall.engine = "DuckDuckGo"
  /\ engCall.transport.fail = "error"
  /\ engCall.transport.at = "body"
  /\ ~engCall.outcome.raised
  /\ engCall.outcome.results = <<>>

\* C21: every process call on a DashSub that does not raise moves the cursor
\* up by exactly one, with or without a '-' in the input (without one the
\* input comes back unchanged); the cursor never goes down; once is_done() is
\* true it stays true.
C21_CursorAdvances ==
  /\ [][(dsCalls' = dsCalls + 1 /\ ~last'.raised) =>
          (/\ ds'.index = ds.index + 1
           /\ (~HasDash(last'.arg) => last'.ret = last'.arg))]_vars
  /\ [][ds'.index >= ds.index]_vars
  /\ [][DashSub_is_done(ds) => DashSub_is_done(ds')]_vars

C21_Witness ==
  /\ LastIs("ds", "process")
  /\ ~last.raised
  /\ last.arg = << "x", "x" >>
  /\ last.ret = << "x", "x" >>
  /\ dsCalls = 3
  /\ ds.index = 3

\* C25: a process call that raises StopIteration changes nothing of the
\* object: a DashSub keeps cursor 26, done and the empty current_letter; a
\* Search keeps done; the same at every repetition.
C25_FailedCallKeepsState ==
  /\ [][(dsCalls' = dsCalls + 1 /\ last'.raised) =>
          (/\ ds' = ds
           /\ ds'.index = 26
           /\ ds'.done
           /\ DashSub_current_letter(ds') = <<>>)]_vars
  /\ [][(spCalls' = spCalls + 1 /\ last'.raised) =>
          (sp' = sp /\ sp'.done)]_vars

C25_Witness ==
  /\ LastIs("sp", "process")
  /\ last.raised
  /\ spCalls = 4
  /\ sp.done
  /\ dsCalls = 28
  /\ ds = [cls |-> "DashSub", index |-> 26, done |-> TRUE]

\* the block a line of the output belongs to: the number of "found" and
\* "no results" lines up to it
BlockOf(lines, p) ==
  Cardinality({ q \in 1..p : IsBlockStart(lines[q]) })

\* whether the title line at p has a snippet line in its result block
HasSnippetLine(lines, p) ==
  /\ p + 2 <= Len(lines)
  /\ lines[p + 1].t = "url"
  /\ lines[p + 2].t = "snippet"

\* C22: for every engine of a pipeline run the "no results" notice, tagged
\* with the engine's name, is printed exactly when its bounded result sequence
\* is empty; otherwise a count header is printed whose number is the number of
\* result blocks under it, which is min(number of results the engine produced,
\* cap); a snippet line is printed only for a result with a non-empty snippet.
C22_RenderMatchesResults ==
  LET blocks == Blocks(out)
  IN /\ Len(blocks) = Len(bounded)
     /\ \A k \in DOMAIN bounded :
          /\ blocks[k].engine = searched[k].engine
          /\ blocks[k].kind = "noresults" <=> bounded[k] = <<>>
          /\ blocks[k].kind = "header" =>
               /\ blocks[k].count = Len(blocks[k].titles)
               /\ blocks[k].count =
                    Min(IF produced[k].raised THEN 0
                        ELSE Len(produced[k].results), args.max_results)
     /\ \A p \in DOMAIN out :
          /\ out[p].t = "snippet" =>
               (p >= 3 /\ out[p - 1].t = "url" /\ out[p - 2].t = "title"
                  /\ out[p].text # <<>>)
          /\ out[p].t = "title" =>
               (HasSnippetLine(out, p) <=>
                  bounded[BlockOf(out, p)][out[p].n].snippet # <<>>)

\* the names that select a strategy of the repository
StrategyNames == { << "d","a","s","h","s","u","b" >>,
                   << "s","e","a","r","c","h" >> }

\* C23: with a '-' in the raw query and a module name that selects no
\* strategy (no such module, or a module without the class), main ends with
\* one diagnostic and exit status 1, and before that calls no processor and
\* runs no pipeline.
C23_UnknownStrategyFails ==
  /\ []((HasDash(Raw) /\ args.module \notin StrategyNames) =>
          /\ processor = NoProcessor
          /\ processCalls = 0
          /\ pipelineCalls = <<>>
          /\ searched = <<>>
          /\ out = <<>>
          /\ pc \in {"start", "exit_error"}
          /\ (pc = "start" => (err = <<>> /\ exitStatus = NoExit))
          /\ (pc = "exit_error" =>
                /\ exitStatus = 1
                /\ Len(err) = 1
                /\ err[1].t \in {"module_not_found", "no_class"}))
  /\ ((HasDash(Raw) /\ args.module \notin StrategyNames)
        ~> (pc = "exit_error" /\ exitStatus = 1))

C23_Witness ==
  /\ HasDash(Raw)
  /\ args.module = << "s","e","a","r","c","h","d","a","s","h" >>
  /\ pc = "exit_error"
  /\ exitStatus = 1
  /\ err = << [t |-> "no_class", engine |-> ""] >>
  /\ pipelineCalls = <<>>

\* the pipeline run the k-th search belongs to, and its place in that run
RunOf(k) == ((k - 1) \div Len(EngineOrder)) + 1

PlaceOf(k) == ((k - 1) % Len(EngineOrder)) + 1

\* the first line of each rendered block, in the order of the output
BlockHeads(lines) == SelectSeq(lines, IsBlockStart)

\* C24: in one pipeline run every engine of the list is searched exactly once,
\* with the query string the run was given, and gets exactly one rendered
\* block, also when its search raises: then the block is the "no results"
\* notice under the engine's own name.
C24_EachEngineOnce ==
  LET blocks == BlockHeads(out)
  IN /\ \A k \in DOMAIN searched :
          /\ RunOf(k) <= Len(pipelineCalls)
          /\ searched[k].engine = EngineOrder[PlaceOf(k)]
          /\ searched[k].query = pipelineCalls[RunOf(k)]
     /\ Len(produced) <= Len(searched)
     /\ Len(blocks) <= Len(produced)
     /\ \A k \in DOMAIN blocks :
          /\ blocks[k].engine = searched[k].engine
          /\ produced[k].raised => blocks[k].t = "noresults"
     /\ (session # "open" /\ ~Interrupted /\ ~Failed) =>
          /\ Len(searched) = Len(EngineOrder) * Len(pipelineCalls)
          /\ Len(produced) = Len(searched)
          /\ Len(blocks) = Len(searched)

C24_Witness ==
  /\ pc = "done"
  /\ Len(pipelineCalls) = 26
  /\ Raw = << "x", "-" >>
  /\ searched[52] = [engine |-> "StartPage", query |-> << "x", "z" >>]
  /\ produced[51].raised
  /\ BlockHeads(out)[51].t = "noresults"
  /\ BlockHeads(out)[51].engine = "DuckDuckGo"
  /\ BlockHeads(out)[52].t = "header"

====
